---- MODULE Spec2Model ----
(***************************************************************************)
(* hash_grid.py: a text is UTF-8 encoded, its bits seed a 32x32 toroidal   *)
(* Game-of-Life grid, the grid is evolved `steps` generations and handed   *)
(* to the renderer; the main program renders one card per day of a date    *)
(* range, each from the SHA3-512 hex digest as its seed text.              *)
(*                                                                         *)
(* A grid is a function row -> (column -> 0/1), read grid[y][x] as in the  *)
(* source. A text is a sequence of Unicode code points, a byte string a    *)
(* sequence of 0..255. Colours, fonts, page layout and the pixels of the   *)
(* rendered image are left out: the grid handed to grid_to_png is kept.    *)
(***************************************************************************)
EXTENDS Integers, Sequences, FiniteSets

VARIABLES
    pc,             \* position in the program
    input_text,     \* generate_png_art: argument input_text
    steps,          \* generate_png_art / create_and_save_card: argument steps
    bytes_data,     \* generate_png_art: input_text.encode('utf-8')
    i,              \* generate_png_art: byte index of the seeding loop
    grid,           \* generate_png_art: the seed grid; evolve_grid: its argument
    current_grid,   \* generate_png_art: the grid of the evolution loop
    gen,            \* generate_png_art: iterations of `for _ in range(steps)` done
    rendered,       \* the grid handed to grid_to_png
    new_grid,       \* evolve_grid: the grid being written
    x, y,           \* evolve_grid: the cell the scan is at
    neighbors,      \* evolve_grid: the last neighbour count taken
    result,         \* evolve_grid: the returned grid
    frames,         \* __main__: the cards made in this run
    current_date,   \* __main__: days from DATE_FROM to the loop's current date
    date_obj,       \* create_and_save_card: <<>> (None) or <<days from DATE_FROM>>
    output,         \* the files under output/: filename -> saved card
    runs            \* how many times the program has been started

vars == <<pc, input_text, steps, bytes_data, i, grid, current_grid, gen, rendered,
          new_grid, x, y, neighbors, result, frames, current_date, date_obj,
          output, runs>>

(***************************************************************************)
(* Bounds of the model.                                                    *)
(***************************************************************************)
MaxLen == 1         \* longest text drawn from the alphabet
MaxSteps == 3       \* largest step count of a direct generate_png_art call
MaxDays == 3        \* days of the date range that are rendered
MaxRuns == 2        \* starts of the program

(***************************************************************************)
(* Program constants.                                                      *)
(***************************************************************************)
SVG_SIZE == 32
MAX_BYTES == (SVG_SIZE * SVG_SIZE + 7) \div 8

None == <<>>

Cells == 0..(SVG_SIZE - 1)

(***************************************************************************)
(* create_grid: SVG_SIZE rows of SVG_SIZE dead cells.                      *)
(***************************************************************************)
create_grid_one_row_short ==
    [r \in 0..(SVG_SIZE - 2) |-> [c \in 0..(SVG_SIZE - 1) |-> 0]]

create_grid == [r \in 0..(SVG_SIZE - 1) |-> [c \in 0..(SVG_SIZE - 1) |-> 0]]

(***************************************************************************)
(* str.encode('utf-8') on a sequence of code points (no surrogates).       *)
(***************************************************************************)
utf8_char(cp) ==
    IF cp < 128 THEN <<cp>>
    ELSE IF cp < 2048 THEN <<192 + (cp \div 64), 128 + (cp % 64)>>
    ELSE IF cp < 65536
         THEN <<224 + (cp \div 4096), 128 + ((cp \div 64) % 64), 128 + (cp % 64)>>
    ELSE <<240 + (cp \div 262144), 128 + ((cp \div 4096) % 64),
           128 + ((cp \div 64) % 64), 128 + (cp % 64)>>

\* the encodings of text[lo..hi], concatenated in order
RECURSIVE utf8_range(_, _, _)
utf8_range(text, lo, hi) ==
    IF lo > hi THEN <<>>
    ELSE IF lo = hi THEN utf8_char(text[lo])
    ELSE LET mid == (lo + hi) \div 2
         IN  utf8_range(text, lo, mid) \o utf8_range(text, mid + 1, hi)

utf8_encode(text) == utf8_range(text, 1, Len(text))

(***************************************************************************)
(* The inner loop of the seeding, for byte `byte` at index `idx`:          *)
(*   for j in range(7, -1, -1):                                            *)
(*       bit = (byte >> j) & 1; bit_index = i * 8 + (7 - j) ...            *)
(***************************************************************************)
RECURSIVE set_bits_lsb_first(_, _, _, _)
set_bits_lsb_first(g, byte, idx, j) ==
    IF j < 0 THEN g
    ELSE LET bit == (byte \div (2 ^ j)) % 2
             bit_index == idx * 8 + j
             cx == bit_index % SVG_SIZE
             cy == bit_index \div SVG_SIZE
         IN  set_bits_lsb_first(
                 IF cy < SVG_SIZE /\ cx < SVG_SIZE
                 THEN [g EXCEPT ![cy][cx] = bit] ELSE g,
                 byte, idx, j - 1)

RECURSIVE set_bits(_, _, _, _)
set_bits(g, byte, idx, j) ==
    IF j < 0 THEN g
    ELSE LET bit == (byte \div (2 ^ j)) % 2
             bit_index == idx * 8 + (7 - j)
             cx == bit_index % SVG_SIZE
             cy == bit_index \div SVG_SIZE
         IN  set_bits(
                 IF cy < SVG_SIZE /\ cx < SVG_SIZE
                 THEN [g EXCEPT ![cy][cx] = bit] ELSE g,
                 byte, idx, j - 1)

(***************************************************************************)
(* get_neighbors: the two loops over i, j in range(-1, 2), in their order, *)
(* skipping i = 0 and j = 0.                                               *)
(***************************************************************************)
Offsets == <<-1, 0, 1>>

RECURSIVE neighbors_j_with_self(_, _, _, _, _)
neighbors_j_with_self(g, cx, cy, oi, nj) ==
    IF nj > Len(Offsets) THEN 0
    ELSE LET oj == Offsets[nj]
             new_x == (cx + oi + SVG_SIZE) % SVG_SIZE
             new_y == (cy + oj + SVG_SIZE) % SVG_SIZE
         IN  g[new_y][new_x] + neighbors_j_with_self(g, cx, cy, oi, nj + 1)

RECURSIVE neighbors_j(_, _, _, _, _)
neighbors_j(g, cx, cy, oi, nj) ==
    IF nj > Len(Offsets) THEN 0
    ELSE LET oj == Offsets[nj]
             new_x == (cx + oi + SVG_SIZE) % SVG_SIZE
             new_y == (cy + oj + SVG_SIZE) % SVG_SIZE
         IN  (IF oi = 0 /\ oj = 0 THEN 0 ELSE g[new_y][new_x])
             + neighbors_j(g, cx, cy, oi, nj + 1)

RECURSIVE neighbors_i(_, _, _, _)
neighbors_i(g, cx, cy, ni) ==
    IF ni > Len(Offsets) THEN 0
    ELSE neighbors_j(g, cx, cy, Offsets[ni], 1) + neighbors_i(g, cx, cy, ni + 1)

get_neighbors(g, cx, cy) == neighbors_i(g, cx, cy, 1)

(***************************************************************************)
(* The cell rule of evolve_grid (lines 48-51).                             *)
(***************************************************************************)
next_cell_survive_on_three_only(alive, n) ==
    IF alive # 0 THEN (IF n = 3 THEN 1 ELSE 0)
    ELSE (IF n = 3 THEN 1 ELSE 0)

next_cell(alive, n) ==
    IF alive # 0 THEN (IF n \in {2, 3} THEN 1 ELSE 0)
    ELSE (IF n = 3 THEN 1 ELSE 0)

(***************************************************************************)
(* Python raises IndexError for a list index that is not below the list's  *)
(* length. Every index the code computes is >= 0.                          *)
(***************************************************************************)
IndexError == <<"IndexError">>

InRange(g, cx, cy) == cy \in DOMAIN g /\ cx \in DOMAIN g[cy]

\* the reads of get_neighbors(grid, x, y) and of `if grid[y][x]`
Readable(g, cx, cy) ==
    /\ \A oi \in {-1, 0, 1}, oj \in {-1, 0, 1} :
          (oi # 0 \/ oj # 0) =>
              InRange(g, (cx + oi + SVG_SIZE) % SVG_SIZE, (cy + oj + SVG_SIZE) % SVG_SIZE)
    /\ InRange(g, cx, cy)

(***************************************************************************)
(* evolve_grid, lines 47-51: the body of the scan for one cell.            *)
(***************************************************************************)
evolve_cell(g, ng, cx, cy) ==
    [ng EXCEPT ![cy][cx] = next_cell(g[cy][cx], get_neighbors(g, cx, cy))]

(***************************************************************************)
(* evolve_grid as one call: new_grid is create_grid, and the scan          *)
(* `for y in range(SVG_SIZE): for x in range(SVG_SIZE)` assigns every cell *)
(* of it once, from the argument grid. The value is the returned grid, or  *)
(* IndexError when a read of the argument or a write of new_grid is out of *)
(* range.                                                                  *)
(***************************************************************************)
evolve_grid(g) ==
    IF \A cy \in 0..(SVG_SIZE - 1), cx \in 0..(SVG_SIZE - 1) :
           Readable(g, cx, cy) /\ InRange(create_grid, cx, cy)
    THEN [cy \in DOMAIN create_grid |->
            [cx \in DOMAIN create_grid[cy] |->
                IF cy < SVG_SIZE /\ cx < SVG_SIZE
                THEN next_cell(g[cy][cx], get_neighbors(g, cx, cy))
                ELSE create_grid[cy][cx]]]
    ELSE IndexError

(***************************************************************************)
(* The texts generate_png_art is called with: every text of at most MaxLen *)
(* characters over Alphabet ("A", "p", e-acute, the euro sign, an emoji:   *)
(* 1 to 4 bytes each), and four longer ones.                               *)
(***************************************************************************)
Alphabet == {65, 112, 233, 8364, 128512}

RECURSIVE TextsOfLen(_)
TextsOfLen(n) ==
    IF n = 0 THEN {<<>>}
    ELSE {<<c>> \o t : c \in Alphabet, t \in TextsOfLen(n - 1)}

BlockText == <<96, 0, 0, 0, 96>>        \* seeds a 2x2 block, a still life

(***************************************************************************)
(* hashlib.sha3_512(data).digest(), as a table over the two messages the   *)
(* program's text can name: the empty message and the greeting.            *)
(***************************************************************************)
GREETING == <<80, 70, 32, 50, 48, 50, 53>>      \* "PF 2025"

sha3_512(data) ==
    CASE data = <<>> ->
            << 166, 159, 115, 204, 162, 58, 154, 197, 200, 181, 103, 220, 24, 90, 117, 110,
               151, 201, 130, 22, 79, 226, 88, 89, 224, 209, 220, 193, 71, 92, 128, 166,
               21, 178, 18, 58, 241, 245, 249, 76, 17, 227, 233, 64, 44, 58, 197, 88,
               245, 0, 25, 157, 149, 182, 211, 227, 1, 117, 133, 134, 40, 29, 205, 38 >>
      [] data = utf8_encode(GREETING) ->
            << 83, 53, 7, 123, 62, 186, 92, 188, 82, 247, 49, 57, 164, 83, 6, 21,
               102, 200, 125, 40, 143, 145, 8, 94, 175, 72, 201, 234, 250, 67, 11, 51,
               101, 204, 125, 28, 123, 90, 240, 167, 241, 97, 3, 208, 121, 146, 124, 161,
               110, 254, 148, 83, 66, 4, 123, 173, 27, 120, 6, 54, 47, 139, 157, 198 >>

(***************************************************************************)
(* hexdigest(): two lowercase hexadecimal digits per digest byte, as code  *)
(* points ("0" is 48, "a" is 97).                                          *)
(***************************************************************************)
hex_char(n) == IF n < 10 THEN 48 + n ELSE 87 + n

hexdigest(digest) ==
    [n \in 1..(2 * Len(digest)) |->
        IF n % 2 = 1 THEN hex_char(digest[(n + 1) \div 2] \div 16)
        ELSE hex_char(digest[n \div 2] % 16)]

(***************************************************************************)
(* create_and_save_card, lines 262-264: hash_text is first the greeting,   *)
(* then the hex digest of a hash object that was fed nothing.              *)
(***************************************************************************)
card_hash_text_of_greeting == hexdigest(sha3_512(utf8_encode(GREETING)))

card_hash_text == hexdigest(sha3_512(<<>>))

Texts ==
    UNION {TextsOfLen(n) : n \in 0..MaxLen}
    \cup {BlockText, card_hash_text, card_hash_text \o <<65, 233>>}

StepCounts == (-1)..MaxSteps

(***************************************************************************)
(* generate_png_art(input_text, steps)                                     *)
(***************************************************************************)
\* lines 82-83
GenStart ==
    /\ pc = "gen_call"
    /\ grid' = create_grid
    /\ bytes_data' = utf8_encode(input_text)
    /\ i' = 0
    /\ pc' = "encode"
    /\ UNCHANGED <<input_text, steps, current_grid, gen, rendered, new_grid, x, y,
                   neighbors, result, frames, current_date, date_obj, output, runs>>

\* lines 85-93, one pass of the outer loop
EncodeByte ==
    /\ pc = "encode"
    /\ i < MAX_BYTES
    /\ LET byte == IF i < Len(bytes_data) THEN bytes_data[i + 1] ELSE 0
       IN  grid' = set_bits(grid, byte, i, 7)
    /\ i' = i + 1
    /\ UNCHANGED <<pc, input_text, steps, bytes_data, current_grid, gen, rendered,
                   new_grid, x, y, neighbors, result, frames, current_date, date_obj,
                   output, runs>>

\* line 95
EncodeDone ==
    /\ pc = "encode"
    /\ ~(i < MAX_BYTES)
    /\ current_grid' = grid
    /\ gen' = 0
    /\ pc' = "evolve"
    /\ UNCHANGED <<input_text, steps, bytes_data, i, grid, rendered, new_grid, x, y,
                   neighbors, result, frames, current_date, date_obj, output, runs>>

\* lines 96-97, one pass of `for _ in range(steps)`, with the grid left as it
\* is once it repeats with period 1 or 2
EvolveLoopStopAtCycle ==
    /\ pc = "evolve"
    /\ gen < steps
    /\ LET evolved == evolve_grid(current_grid)
       IN  /\ evolved # IndexError
           /\ current_grid' = (IF evolve_grid(evolved) = current_grid
                               THEN current_grid ELSE evolved)
    /\ gen' = gen + 1
    /\ UNCHANGED <<pc, input_text, steps, bytes_data, i, grid, rendered, new_grid, x, y,
                   neighbors, result, frames, current_date, date_obj, output, runs>>

\* lines 96-97, one pass of `for _ in range(steps)`
EvolveLoop ==
    /\ pc = "evolve"
    /\ gen < steps
    /\ LET evolved == evolve_grid(current_grid)
       IN  /\ evolved # IndexError
           /\ current_grid' = evolved
    /\ gen' = gen + 1
    /\ UNCHANGED <<pc, input_text, steps, bytes_data, i, grid, rendered, new_grid, x, y,
                   neighbors, result, frames, current_date, date_obj, output, runs>>

\* line 99: range(steps) is exhausted (at once when steps <= 0)
Render ==
    /\ pc = "evolve"
    /\ ~(gen < steps)
    /\ rendered' = current_grid
    /\ pc' = "gen_done"
    /\ UNCHANGED <<input_text, steps, bytes_data, i, grid, current_grid, gen, new_grid,
                   x, y, neighbors, result, frames, current_date, date_obj, output, runs>>

(***************************************************************************)
(* Spec: one call generate_png_art(input_text, steps).                     *)
(***************************************************************************)
Init ==
    /\ pc = "gen_call"
    /\ input_text \in Texts
    /\ steps \in StepCounts
    /\ bytes_data = None /\ i = 0
    /\ grid = None /\ current_grid = None /\ gen = 0 /\ rendered = None
    /\ new_grid = None /\ x = 0 /\ y = 0 /\ neighbors = 0 /\ result = None
    /\ frames = <<>> /\ current_date = 0 /\ date_obj = None
    /\ output = <<>> /\ runs = 0

Next == GenStart \/ EncodeByte \/ EncodeDone \/ EvolveLoop \/ Render

Spec == Init /\ [][Next]_vars

(***************************************************************************)
(* Properties of generate_png_art, under Spec.                             *)
(***************************************************************************)
\* bit j of byte b, j = 0 the most significant
BitOf(b, j) == (b \div (2 ^ (7 - j))) % 2

\* byte n (from 0) of bs, 0 past its end
ByteAt(bs, n) == IF n < Len(bs) THEN bs[n + 1] ELSE 0

IsBitGrid(g) == g \in [0..(SVG_SIZE - 1) -> [0..(SVG_SIZE - 1) -> {0, 1}]]

LiveCells(g) == {<<cx, cy>> \in Cells \X Cells : g[cy][cx] = 1}

SeedComplete == pc \in {"evolve", "gen_done"}

\* C3: once the seeding loop has ended, cell (x = (8i+j) mod N, y = (8i+j) div N)
\* of the seed grid is bit j (0 = most significant) of byte i of the UTF-8
\* encoding of the text, bytes past its end counting as 0, for every i below the
\* capacity ceil(N*N/8) and every j in 0..7 with y < N; the text "A" seeds
\* exactly the cells (1,0) and (7,0), and the empty text seeds no cell.
C3_SeedMapping ==
    SeedComplete =>
        /\ \A n \in 0..(((SVG_SIZE * SVG_SIZE + 7) \div 8) - 1), j \in 0..7 :
              LET idx == 8 * n + j
              IN  (idx \div SVG_SIZE < SVG_SIZE) =>
                      grid[idx \div SVG_SIZE][idx % SVG_SIZE]
                          = BitOf(ByteAt(utf8_encode(input_text), n), j)
        /\ (input_text = <<65>>) => LiveCells(grid) = {<<1, 0>>, <<7, 0>>}
        /\ (input_text = <<>>) => LiveCells(grid) = {}

\* the text "A" has been seeded: (1,0) and (7,0) are live
C3_Witness ==
    /\ SeedComplete
    /\ input_text = <<65>>
    /\ grid[0][1] = 1 /\ grid[0][7] = 1 /\ grid[0][0] = 0

RECURSIVE Generations(_, _)
Generations(g, n) == IF n <= 0 THEN g ELSE evolve_grid(Generations(g, n - 1))

\* C4: for a step count s >= 0, the grid handed to the renderer is evolve_grid
\* applied s times in sequence to the seed, the loop has run exactly s times
\* (also when the grid stopped changing or cycled earlier), and with s = 0 the
\* grid handed over is the seed.
C4_ExactlyStepsGenerations ==
    (pc = "gen_done" /\ steps >= 0) =>
        /\ rendered = Generations(grid, steps)
        /\ gen = steps
        /\ (steps = 0 => rendered = grid)

\* a seed with live cells that repeats with period 2 (a blinker) was evolved
\* three times, past its first repetition
C4_Witness ==
    /\ pc = "gen_done"
    /\ steps = 3
    /\ gen = steps
    /\ LiveCells(grid) # {}
    /\ evolve_grid(grid) # grid
    /\ evolve_grid(evolve_grid(grid)) = grid
    /\ rendered = evolve_grid(grid)

\* C5: a call with steps < 0 hands no grid to the renderer.
C5_NegativeStepsRejected ==
    (steps < 0) => (pc # "gen_done" /\ rendered = None)

\* C8: the seed grid, the grid of the evolution loop and the grid handed to the
\* renderer have exactly N rows of exactly N cells, each 0 or 1, from their
\* creation on.
C8_GridShape ==
    /\ (pc # "gen_call") => IsBitGrid(grid)
    /\ SeedComplete => IsBitGrid(current_grid)
    /\ (pc = "gen_done") => IsBitGrid(rendered)

\* an evolved grid with live cells is handed to the renderer
C8_Witness ==
    /\ pc = "gen_done"
    /\ gen >= 1
    /\ LiveCells(rendered) # {}
    /\ IsBitGrid(rendered)

(***************************************************************************)
(* evolve_grid(grid), cell by cell.                                        *)
(***************************************************************************)
\* line 44
EvolveEnter ==
    /\ pc = "evolve_call"
    /\ new_grid' = create_grid
    /\ x' = 0 /\ y' = 0
    /\ pc' = "scan"
    /\ UNCHANGED <<input_text, steps, bytes_data, i, grid, current_grid, gen, rendered,
                   neighbors, result, frames, current_date, date_obj, output, runs>>

\* lines 45-51 for one cell, then the loops' step to the next cell:
\* with new_grid an alias of grid (the cell is overwritten in place)
EvolveCellInPlace ==
    /\ pc = "scan"
    /\ y < SVG_SIZE
    /\ Readable(grid, x, y) /\ InRange(grid, x, y)
    /\ neighbors' = get_neighbors(grid, x, y)
    /\ grid' = evolve_cell(grid, grid, x, y)
    /\ new_grid' = grid'
    /\ x' = (IF x + 1 < SVG_SIZE THEN x + 1 ELSE 0)
    /\ y' = (IF x + 1 < SVG_SIZE THEN y ELSE y + 1)
    /\ UNCHANGED <<pc, input_text, steps, bytes_data, i, current_grid, gen, rendered,
                   result, frames, current_date, date_obj, output, runs>>

\* lines 45-51 for one cell, then the loops' step to the next cell
EvolveCell ==
    /\ pc = "scan"
    /\ y < SVG_SIZE
    /\ Readable(grid, x, y) /\ InRange(new_grid, x, y)
    /\ neighbors' = get_neighbors(grid, x, y)
    /\ new_grid' = evolve_cell(grid, new_grid, x, y)
    /\ x' = (IF x + 1 < SVG_SIZE THEN x + 1 ELSE 0)
    /\ y' = (IF x + 1 < SVG_SIZE THEN y ELSE y + 1)
    /\ UNCHANGED <<pc, input_text, steps, bytes_data, i, grid, current_grid, gen,
                   rendered, result, frames, current_date, date_obj, output, runs>>

\* lines 40, 48: a read past the end of a list raises IndexError
EvolveIndexError ==
    /\ pc = "scan"
    /\ y < SVG_SIZE
    /\ ~(Readable(grid, x, y) /\ InRange(new_grid, x, y))
    /\ pc' = "error"
    /\ UNCHANGED <<input_text, steps, bytes_data, i, grid, current_grid, gen, rendered,
                   new_grid, x, y, neighbors, result, frames, current_date, date_obj,
                   output, runs>>

\* line 52
EvolveReturn ==
    /\ pc = "scan"
    /\ ~(y < SVG_SIZE)
    /\ result' = new_grid
    /\ pc' = "returned"
    /\ UNCHANGED <<input_text, steps, bytes_data, i, grid, current_grid, gen, rendered,
                   new_grid, x, y, neighbors, frames, current_date, date_obj, output,
                   runs>>

(***************************************************************************)
(* The grids evolve_grid is called with. Pattern(c, k, px, py) is dead     *)
(* but for cell (px, py), which holds c, and the first k cells of Ring     *)
(* around it (on the torus), which are live: every pair of a cell state    *)
(* and a neighbour count 0..8 occurs. Four more are not SVG_SIZE x         *)
(* SVG_SIZE.                                                               *)
(***************************************************************************)
Ring == << <<-1, -1>>, <<-1, 0>>, <<0, -1>>, <<1, 1>>,
           <<1, 0>>, <<0, 1>>, <<-1, 1>>, <<1, -1>> >>

Pattern(c, k, px, py) ==
    [cy \in Cells |-> [cx \in Cells |->
        IF cx = px /\ cy = py THEN c
        ELSE IF \E n \in 1..k :
                    /\ cx = (px + Ring[n][1] + SVG_SIZE) % SVG_SIZE
                    /\ cy = (py + Ring[n][2] + SVG_SIZE) % SVG_SIZE
             THEN 1 ELSE 0]]

Centres == {<<0, 0>>, <<SVG_SIZE - 1, SVG_SIZE - 1>>, <<5, 9>>}

SquareGrids ==
    {Pattern(c, k, p[1], p[2]) : c \in {0, 1}, k \in 0..Len(Ring), p \in Centres}

CornerBlock == Pattern(1, Len(Ring), 0, 0)

FewerRows == [r \in 0..(SVG_SIZE - 2) |-> CornerBlock[r]]

MoreRows ==
    [r \in 0..SVG_SIZE |-> IF r < SVG_SIZE THEN CornerBlock[r] ELSE [c \in Cells |-> 1]]

ShortRow ==
    [CornerBlock EXCEPT ![2] = [c \in 0..(SVG_SIZE - 2) |-> CornerBlock[2][c]]]

LongRow ==
    [CornerBlock EXCEPT
        ![2] = [c \in 0..SVG_SIZE |-> IF c < SVG_SIZE THEN CornerBlock[2][c] ELSE 1]]

MalformedGrids == {FewerRows, MoreRows, ShortRow, LongRow}

(***************************************************************************)
(* SpecEngine: one call evolve_grid(grid).                                 *)
(***************************************************************************)
InitEngine ==
    /\ pc = "evolve_call"
    /\ grid \in SquareGrids \cup MalformedGrids
    /\ input_text = <<>> /\ steps = 0 /\ bytes_data = None /\ i = 0
    /\ current_grid = None /\ gen = 0 /\ rendered = None
    /\ new_grid = None /\ x = 0 /\ y = 0 /\ neighbors = 0 /\ result = None
    /\ frames = <<>> /\ current_date = 0 /\ date_obj = None
    /\ output = <<>> /\ runs = 0

NextEngine == EvolveEnter \/ EvolveCell \/ EvolveIndexError \/ EvolveReturn

SpecEngine == InitEngine /\ [][NextEngine]_vars

(***************************************************************************)
(* Properties of evolve_grid and get_neighbors, under SpecEngine.          *)
(***************************************************************************)
IsSquare(g) ==
    /\ DOMAIN g = 0..(SVG_SIZE - 1)
    /\ \A r \in DOMAIN g : DOMAIN g[r] = 0..(SVG_SIZE - 1)

\* the 8 positions around (cx, cy) on the torus
Around(cx, cy) ==
    {<<(cx + d[1]) % SVG_SIZE, (cy + d[2]) % SVG_SIZE>> :
        d \in ({-1, 0, 1} \X {-1, 0, 1}) \ {<<0, 0>>}}

\* how many of them are live in g
LiveAround(g, cx, cy) == Cardinality({p \in Around(cx, cy) : g[p[2]][p[1]] = 1})

\* the cell the scan has just left
ScannedSome == pc = "scan" /\ (x > 0 \/ y > 0)
LastX == IF x > 0 THEN x - 1 ELSE SVG_SIZE - 1
LastY == IF x > 0 THEN y ELSE y - 1

\* the cell of `after` at (cx, cy) follows the two rules from `before`
FollowsRules(before, after, cx, cy) ==
    (after[cy][cx] = 1) <=>
        \/ before[cy][cx] = 1 /\ LiveAround(before, cx, cy) \in {2, 3}
        \/ before[cy][cx] = 0 /\ LiveAround(before, cx, cy) = 3

\* C1: when evolve_grid returns for an N x N grid, every cell of the returned
\* grid is 0 or 1, and it is live exactly when the old cell is live with 2 or 3
\* live neighbours or dead with exactly 3; the one-call form of evolve_grid
\* gives the same grid.
C1_LifeRules ==
    (pc = "returned" /\ IsSquare(grid)) =>
        /\ \A cx \in Cells, cy \in Cells :
              /\ result[cy][cx] \in {0, 1}
              /\ FollowsRules(grid, result, cx, cy)
        /\ evolve_grid(grid) = result

\* a live cell with 8 live neighbours died, a live cell with 3 survived, a dead
\* cell with 3 was born and a dead cell with 2 stayed dead
C1_Witness ==
    /\ pc = "returned"
    /\ IsSquare(grid)
    /\ \E cx \in Cells, cy \in Cells :
          grid[cy][cx] = 1 /\ LiveAround(grid, cx, cy) = 8 /\ result[cy][cx] = 0
    /\ \E cx \in Cells, cy \in Cells :
          grid[cy][cx] = 1 /\ LiveAround(grid, cx, cy) = 3 /\ result[cy][cx] = 1
    /\ \E cx \in Cells, cy \in Cells :
          grid[cy][cx] = 0 /\ LiveAround(grid, cx, cy) = 3 /\ result[cy][cx] = 1
    /\ \E cx \in Cells, cy \in Cells :
          grid[cy][cx] = 0 /\ LiveAround(grid, cx, cy) = 2 /\ result[cy][cx] = 0

\* C2: the count get_neighbors returned for the cell just scanned is the
\* number of live cells among the 8 positions ((x+dx) mod N, (y+dy) mod N),
\* (dx, dy) # (0, 0); there are 8 such positions, the cell is not one of them,
\* the count is in 0..8, and for the corner (0, 0) the positions include
\* (N-1, N-1), (N-1, 0) and (0, N-1).
C2_NeighbourCount ==
    (ScannedSome /\ IsSquare(grid)) =>
        /\ neighbors = LiveAround(grid, LastX, LastY)
        /\ neighbors \in 0..8
        /\ Cardinality(Around(LastX, LastY)) = 8
        /\ <<LastX, LastY>> \notin Around(LastX, LastY)
        /\ (LastX = 0 /\ LastY = 0) =>
              /\ {<<SVG_SIZE - 1, SVG_SIZE - 1>>, <<SVG_SIZE - 1, 0>>,
                  <<0, SVG_SIZE - 1>>} \subseteq Around(0, 0)
              /\ neighbors >= grid[SVG_SIZE - 1][SVG_SIZE - 1]
                              + grid[0][SVG_SIZE - 1] + grid[SVG_SIZE - 1][0]

\* the corner (0, 0) is live, its only live neighbours are the three cells
\* across the edges, and it was counted 3
C2_Witness ==
    /\ ScannedSome /\ IsSquare(grid)
    /\ LastX = 0 /\ LastY = 0
    /\ LiveCells(grid) = {<<0, 0>>, <<SVG_SIZE - 1, SVG_SIZE - 1>>,
                          <<SVG_SIZE - 1, 0>>, <<0, SVG_SIZE - 1>>}
    /\ neighbors = 3

\* C6: evolve_grid does not return for a grid that is not N x N.
C6_MalformedRejected ==
    (grid # None /\ ~IsSquare(grid)) => pc # "returned"

\* C7: evolve_grid starts from a fresh all-dead grid; a step of the scan leaves
\* the argument grid as it is, changes new_grid at the scanned cell only, and
\* writes there what the rules give from the neighbours in the argument grid;
\* at the return the argument is unchanged and every cell of the result follows
\* from the argument grid alone.
C7_NoInPlaceUpdate ==
    [][ /\ grid' = grid
        /\ (pc = "evolve_call" /\ pc' = "scan") =>
              (IsBitGrid(new_grid') /\ LiveCells(new_grid') = {})
        /\ (pc = "scan" /\ pc' = "scan" /\ IsSquare(grid)) =>
              /\ new_grid' = [new_grid EXCEPT ![y][x] = new_grid'[y][x]]
              /\ FollowsRules(grid, new_grid', x, y)
        /\ (pc = "scan" /\ pc' = "returned" /\ IsSquare(grid)) =>
              \A cx \in Cells, cy \in Cells : FollowsRules(grid, result', cx, cy)
      ]_vars

\* evolve_grid returned a grid that differs from its argument, which has live
\* cells
C7_Witness ==
    /\ pc = "returned"
    /\ IsSquare(grid)
    /\ LiveCells(grid) # {}
    /\ result # grid

(***************************************************************************)
(* The main program and create_and_save_card. A date is its number of days *)
(* after DATE_FROM; strftime gives its year, month and day.                *)
(***************************************************************************)
MonthLengths == <<31, 28, 31, 30, 31, 30, 31, 31, 30, 31, 30, 31>>      \* 2025

RECURSIVE month_and_day(_, _)
month_and_day(day_of_year, month) ==
    IF day_of_year <= MonthLengths[month] THEN <<month, day_of_year>>
    ELSE month_and_day(day_of_year - MonthLengths[month], month + 1)

\* date_obj.strftime(...) of DATE_FROM + days: <<year, month, day>>
strftime(days) == <<2025>> \o month_and_day(days + 1, 1)

\* lines 251-260: the file a card is saved to, "output/20250000.png" without a date
card_filename(d) == IF d = None THEN <<2025, 0, 0>> ELSE strftime(d[1])

\* line 296: DATE_TO as days after DATE_FROM, the range cut to its first MaxDays days
date_to == MaxDays - 1

\* line 307: steps = (current_date - date_from).days + 1
steps_for_day_zero_based(days) == days

steps_for_day(days) == days + 1

\* lines 295-302: the program starts and makes the first card
MainStart ==
    /\ pc = "main"
    /\ runs' = runs + 1
    /\ frames' = <<>>
    /\ steps' = 0
    /\ date_obj' = None
    /\ pc' = "card_call"
    /\ UNCHANGED <<input_text, bytes_data, i, grid, current_grid, gen, rendered,
                   new_grid, x, y, neighbors, result, current_date, output>>

\* lines 250-272: up to the call of generate_png_art(hash_text, steps, ...)
CardStart ==
    /\ pc = "card_call"
    /\ input_text' = card_hash_text
    /\ pc' = "gen_call"
    /\ UNCHANGED <<steps, bytes_data, i, grid, current_grid, gen, rendered, new_grid,
                   x, y, neighbors, result, frames, current_date, date_obj, output,
                   runs>>

\* lines 274-289, and the caller's frames.append; then line 305 or line 309
CardFinish ==
    /\ pc = "gen_done"
    /\ LET card == [date_str |-> IF date_obj = None THEN <<>> ELSE strftime(date_obj[1]),
                    grid_image |-> rendered]
           filename == card_filename(date_obj)
       IN  /\ output' = [f \in DOMAIN output \cup {filename} |->
                            IF f = filename THEN card ELSE output[f]]
           /\ frames' = Append(frames, card)
    /\ current_date' = (IF date_obj = None THEN 0 ELSE current_date + 1)
    /\ pc' = "loop"
    /\ UNCHANGED <<input_text, steps, bytes_data, i, grid, current_grid, gen, rendered,
                   new_grid, x, y, neighbors, result, date_obj, runs>>

\* lines 306-308
LoopBody ==
    /\ pc = "loop"
    /\ current_date <= date_to
    /\ steps' = steps_for_day(current_date)
    /\ date_obj' = <<current_date>>
    /\ pc' = "card_call"
    /\ UNCHANGED <<input_text, bytes_data, i, grid, current_grid, gen, rendered,
                   new_grid, x, y, neighbors, result, frames, current_date, output,
                   runs>>

\* line 306: current_date is past the last day
LoopExit ==
    /\ pc = "loop"
    /\ ~(current_date <= date_to)
    /\ pc' = "exit"
    /\ UNCHANGED <<input_text, steps, bytes_data, i, grid, current_grid, gen, rendered,
                   new_grid, x, y, neighbors, result, frames, current_date, date_obj,
                   output, runs>>

\* the program is started again: the files under output/ are what is left
Restart ==
    /\ pc = "exit"
    /\ runs < MaxRuns
    /\ pc' = "main"
    /\ input_text' = <<>> /\ steps' = 0 /\ bytes_data' = None /\ i' = 0
    /\ grid' = None /\ current_grid' = None /\ gen' = 0 /\ rendered' = None
    /\ frames' = <<>> /\ current_date' = 0 /\ date_obj' = None
    /\ UNCHANGED <<new_grid, x, y, neighbors, result, output, runs>>

(***************************************************************************)
(* SpecMain: the program, run up to MaxRuns times.                         *)
(***************************************************************************)
InitMain ==
    /\ pc = "main"
    /\ input_text = <<>> /\ steps = 0 /\ bytes_data = None /\ i = 0
    /\ grid = None /\ current_grid = None /\ gen = 0 /\ rendered = None
    /\ new_grid = None /\ x = 0 /\ y = 0 /\ neighbors = 0 /\ result = None
    /\ frames = <<>> /\ current_date = 0 /\ date_obj = None
    /\ output = <<>> /\ runs = 0

NextMain ==
    \/ MainStart \/ CardStart
    \/ GenStart \/ EncodeByte \/ EncodeDone \/ EvolveLoop \/ Render
    \/ CardFinish \/ LoopBody \/ LoopExit \/ Restart

SpecMain == InitMain /\ [][NextMain]_vars

(***************************************************************************)
(* Properties of the main program, under SpecMain.                         *)
(***************************************************************************)
\* "a69f73cc...281dcd26": the SHA3-512 hex digest of the empty message
EmptyDigestText ==
    << 97, 54, 57, 102, 55, 51, 99, 99, 97, 50, 51, 97, 57, 97, 99, 53,
       99, 56, 98, 53, 54, 55, 100, 99, 49, 56, 53, 97, 55, 53, 54, 101,
       57, 55, 99, 57, 56, 50, 49, 54, 52, 102, 101, 50, 53, 56, 53, 57,
       101, 48, 100, 49, 100, 99, 99, 49, 52, 55, 53, 99, 56, 48, 97, 54,
       49, 53, 98, 50, 49, 50, 51, 97, 102, 49, 102, 53, 102, 57, 52, 99,
       49, 49, 101, 51, 101, 57, 52, 48, 50, 99, 51, 97, 99, 53, 53, 56,
       102, 53, 48, 48, 49, 57, 57, 100, 57, 53, 98, 54, 100, 51, 101, 51,
       48, 49, 55, 53, 56, 53, 56, 54, 50, 56, 49, 100, 99, 100, 50, 54 >>

InCard == pc \in {"gen_call", "encode", "evolve", "gen_done"}

C10_FramesAreSuccessiveGenerations ==
    /\ (pc = "card_call" \/ InCard) =>
          /\ steps = Len(frames)
          /\ (date_obj = None) <=> (steps = 0)
          /\ (date_obj # None) => (date_obj = <<steps - 1>>)
    /\ (pc = "loop") =>
          \A n \in 1..(Len(frames) - 1) :
              frames[n + 1].grid_image = evolve_grid(frames[n].grid_image)

\* three frames are there, each the next generation of the one before, and
\* they differ
C10_Witness ==
    /\ pc = "loop"
    /\ Len(frames) >= 3
    /\ frames[2].grid_image = evolve_grid(frames[1].grid_image)
    /\ frames[3].grid_image = evolve_grid(frames[2].grid_image)
    /\ frames[1].grid_image # frames[2].grid_image
    /\ frames[2].grid_image # frames[3].grid_image

====
